---- MODULE Spec2Model ----
(***************************************************************************)
(* Digit Collector: ten drawing canvases (DigitCanvas.tsx), the batch      *)
(* submit / clear-all handlers of App (src/unnamed/part_000) and the       *)
(* storage service (supabaseService.ts).                                   *)
(*                                                                         *)
(* A canvas surface is kept as the gray level of the darkest pixel that     *)
(* drawImage's down-scaling gives it (255 = untouched white background):    *)
(* black strokes only darken pixels, so painting is a minimum, and the      *)
(* emptiness scan of getData depends on the darkest pixel only.             *)
(***************************************************************************)
EXTENDS Integers, Sequences, FiniteSets, TLC

VARIABLES
    config,        \* constants.ts values: [url, key, bucket]
    isConfigValid, \* App: useMemo(() => checkConfig(), [])
    slot,          \* per digit: the DigitCanvas component and its 2d context
    isUploading,   \* App state
    results,       \* App state: UploadResult[] | null
    globalError,   \* App state: string | null
    task,          \* per digit: the async callback of DIGITS.map in handleSubmit
    allPromise,    \* Promise.all(uploadPromises): none / pending / fulfilled / rejected
    completed,     \* digits of the current batch in the order their promises settled
    hist,          \* per input slot: what happened since its last initCanvas
    raster,        \* input of the pixel scan (scan specification only)
    scanOut,       \* output of the pixel scan (scan specification only)
    storage,       \* what the storage call of a lone uploadDigit call produced
    reply          \* how that uploadDigit call ended

vars == <<config, isConfigValid, slot, isUploading, results, globalError,
          task, allPromise, completed, hist, raster, scanOut, storage,
          reply>>

-----------------------------------------------------------------------------
(* Bounds *)

\* number of gray levels a stroke can leave on the down-scaled surface,
\* counted down from the threshold
InkLevels == 2

\* number of pixels of the rasters the pixel scan is checked on
ScanPixels == 2

\* the slots that receive pointer input and per-slot clear clicks
ActiveDigits == {0, 9}

-----------------------------------------------------------------------------
(* Program constants *)

DIGITS == <<0, 1, 2, 3, 4, 5, 6, 7, 8, 9>>

DigitSet == {DIGITS[i] : i \in 1..Len(DIGITS)}

THRESHOLD == 240

WHITE == 255

PLACEHOLDER_URL == "https://YOUR-PROJECT-ID.supabase.co"

PLACEHOLDER_KEY == "YOUR-ANON-PUBLIC-KEY"

PLACEHOLDER_BUCKET == "YOUR-BUCKET-NAME"

CONFIG_ERROR == "Please configure Supabase keys in constants.ts first."

BATCH_ERROR == "An unexpected error occurred during the batch upload."

\* JavaScript null for record-valued state, for the results list (a value no
\* list of ten outcomes equals) and for string-valued state
Null == [null |-> TRUE]

NoResults == <<>>

NullText == "(null)"

\* the text a template literal gives to an undefined value
UndefinedText == "undefined"

-----------------------------------------------------------------------------
(* Canvas: surface, 2d context and component state *)

\* gray levels of the darkest pixel: background, an anti-aliased stroke
\* edge that stays at the threshold, strokes below it
Shades == {WHITE} \cup {THRESHOLD + 1 - k : k \in 1..InkLevels}

Min(a, b) == IF a < b THEN a ELSE b

BlankSurface == WHITE

\* what one more line segment of the pen covers (WHITE: nothing visible)
Segments == Shades

\* painting that replaces what it covers instead of darkening it
PaintOver(surface, path) == IF path = WHITE THEN surface ELSE path

\* ctx.stroke(): painting a path in black over the surface only darkens it
Paint(surface, path) == Min(surface, path)

DrawStyle ==
    [fillStyle |-> "#ffffff", lineWidth |-> "STROKE_WIDTH", lineCap |-> "round",
     lineJoin |-> "round", strokeStyle |-> "#000000"]

\* initCanvas without the fillRect
initCanvasNoFill(s) ==
    [s EXCEPT !.style = DrawStyle,
              !.hasContent = FALSE]

\* initCanvas flipping the flag instead of resetting it
initCanvasToggle(s) ==
    [s EXCEPT !.surface = BlankSurface,
              !.style = DrawStyle,
              !.hasContent = ~@]

initCanvas(s) ==
    [s EXCEPT !.surface = BlankSurface,
              !.style = DrawStyle,
              !.hasContent = FALSE]

\* the component after mount: useState(false) twice, useEffect -> initCanvas
MountedSlot ==
    initCanvas([surface |-> BlankSurface, path |-> BlankSurface,
                style |-> DrawStyle, isDrawing |-> FALSE, hasContent |-> FALSE])

\* history of a slot: clears = how many times initCanvas ran since the last
\* stroke input on the slot (counted up to 2), inked = a stroke rendered a
\* pixel below the threshold since the last initCanvas
FreshHist == [clears |-> 1, inked |-> FALSE]


-----------------------------------------------------------------------------
(* getData: down-scaling and the emptiness scan *)

\* drawImage into the white-filled small canvas, then getImageData: the flat
\* RGBA byte array, four entries per pixel; here the darkest pixel, opaque
Resample(surface) == <<surface, surface, surface, WHITE>>

\* the scan without its break: every pixel sets isBlank, the last one wins
RECURSIVE ScanLastWins(_, _)
ScanLastWins(data, i) ==
    IF i >= Len(data) THEN TRUE
    ELSE LET r == data[i + 1]
             g == data[i + 2]
             b == data[i + 3]
         IN IF i + 4 >= Len(data)
            THEN ~(r < THRESHOLD \/ g < THRESHOLD \/ b < THRESHOLD)
            ELSE ScanLastWins(data, i + 4)

\* for (let i = 0; i < data.length; i += 4) { if (r < 240 || ...) break }
\* i is the 0-based index of the loop; the value is isBlank after the loop
RECURSIVE ScanFrom(_, _)
ScanFrom(data, i) ==
    IF i >= Len(data) THEN TRUE
    ELSE LET r == data[i + 1]
             g == data[i + 2]
             b == data[i + 3]
         IN IF r < THRESHOLD \/ g < THRESHOLD \/ b < THRESHOLD
            THEN FALSE
            ELSE ScanFrom(data, i + 4)

isBlank(data) == ScanFrom(data, 0)

\* the end of the synchronous part of getData: a blank raster returns
\* { blob: null, isEmpty: true }, any other starts toBlob
Classify(data) ==
    IF isBlank(data)
    THEN [isEmpty |-> TRUE, encoding |-> FALSE]
    ELSE [isEmpty |-> FALSE, encoding |-> TRUE]

getData(s) == Classify(Resample(s.surface))

-----------------------------------------------------------------------------
(* Canvas event handlers, on the slots that receive input *)

Bump(n) == IF n < 2 THEN n + 1 ELSE 2

\* an Erase button that resets every canvas
clearEvery(d) ==
    /\ d \in ActiveDigits
    /\ slot' = [e \in DigitSet |-> initCanvas(slot[e])]
    /\ hist' = [hist EXCEPT ![d] = [clears |-> Bump(hist[d].clears),
                                    inked |-> FALSE]]
    /\ UNCHANGED <<config, isConfigValid, isUploading, results, globalError,
                   task, allPromise, completed, raster, scanOut, storage,
                   reply>>

\* the Erase / Clear button of a slot, and the handle's clear()
clear(d) ==
    /\ d \in ActiveDigits
    /\ slot' = [slot EXCEPT ![d] = initCanvas(slot[d])]
    /\ hist' = [hist EXCEPT ![d] = [clears |-> Bump(hist[d].clears),
                                    inked |-> FALSE]]
    /\ UNCHANGED <<config, isConfigValid, isUploading, results, globalError,
                   task, allPromise, completed, raster, scanOut, storage,
                   reply>>

\* onMouseDown / onTouchStart: beginPath + moveTo render nothing
startDrawing(d) ==
    /\ d \in ActiveDigits
    /\ slot' = [slot EXCEPT ![d].isDrawing = TRUE,
                            ![d].hasContent = TRUE,
                            ![d].path = BlankSurface]
    /\ hist' = [hist EXCEPT ![d].clears = 0]
    /\ UNCHANGED <<config, isConfigValid, isUploading, results, globalError,
                   task, allPromise, completed, raster, scanOut, storage,
                   reply>>

\* draw without the isDrawing test
drawUnguarded(d) ==
    /\ d \in ActiveDigits
    /\ \E seg \in Segments :
         LET path2 == Paint(slot[d].path, seg)
         IN /\ slot' = [slot EXCEPT ![d].path = path2,
                                    ![d].surface = Paint(slot[d].surface, path2)]
            /\ hist' = [hist EXCEPT
                          ![d].clears = 0,
                          ![d].inked = @ \/ path2 < THRESHOLD]
    /\ UNCHANGED <<config, isConfigValid, isUploading, results, globalError,
                   task, allPromise, completed, raster, scanOut, storage,
                   reply>>

\* onMouseMove / onTouchMove: lineTo adds a segment, stroke paints the whole
\* current path
draw(d) ==
    /\ d \in ActiveDigits
    /\ IF ~slot[d].isDrawing
       THEN UNCHANGED <<slot, hist>>
       ELSE \E seg \in Segments :
              LET path2 == Paint(slot[d].path, seg)
              IN /\ slot' = [slot EXCEPT ![d].path = path2,
                                         ![d].surface = Paint(slot[d].surface, path2)]
                 /\ hist' = [hist EXCEPT
                               ![d].clears = 0,
                               ![d].inked = @ \/ path2 < THRESHOLD]
    /\ UNCHANGED <<config, isConfigValid, isUploading, results, globalError,
                   task, allPromise, completed, raster, scanOut, storage,
                   reply>>

\* onMouseUp / onMouseLeave / onTouchEnd / onTouchCancel: closePath renders
\* nothing
stopDrawing(d) ==
    /\ d \in ActiveDigits
    /\ IF ~slot[d].isDrawing
       THEN UNCHANGED <<slot, hist>>
       ELSE /\ slot' = [slot EXCEPT ![d].isDrawing = FALSE]
            /\ UNCHANGED hist
    /\ UNCHANGED <<config, isConfigValid, isUploading, results, globalError,
                   task, allPromise, completed, raster, scanOut, storage,
                   reply>>

-----------------------------------------------------------------------------
(* JavaScript values the storage call hands back as an error, or throws *)

JsNull == [type |-> "null"]

JsUndefined == [type |-> "undefined"]

JsString(text) == [type |-> "string", text |-> text]

\* an object: its message property when it has one, and its JSON text
JsObject(fields) == [type |-> "object"] @@ fields

ErrWithMessage ==
    JsObject([message |-> "The resource already exists",
              json |-> "{\"message\":\"The resource already exists\"}"])

ErrNoMessage == JsObject([json |-> "{}"])

ErrString == JsString("network down")

ErrEmptyString == JsString("")

\* the result of the awaited supabase.storage upload call
StorageOutcomes ==
    {[thrown |-> FALSE, error |-> e] :
        e \in {JsNull, ErrWithMessage, ErrNoMessage, ErrString}}
    \cup
    {[thrown |-> TRUE, error |-> e] :
        e \in {ErrWithMessage, ErrNoMessage, ErrString, ErrEmptyString, JsNull,
               JsUndefined}}

\* the storage outcomes the batches are run with: success, a returned
\* string, a thrown undefined
BatchOutcomes ==
    {[thrown |-> FALSE, error |-> JsNull],
     [thrown |-> FALSE, error |-> ErrString],
     [thrown |-> TRUE, error |-> JsUndefined]}

\* a property read fails on null and undefined
IsNullish(v) == v.type \in {"null", "undefined"}

\* v.message, as a text; "" stands for undefined (both are falsy)
MessageOf(v) == IF "message" \in DOMAIN v THEN v.message ELSE ""

Truthy(v) ==
    CASE v.type = "object" -> TRUE
      [] v.type = "string" -> v.text # ""
      [] OTHER -> FALSE

\* typeof v; typeof null is "object"
TypeOf(v) == IF v.type = "null" THEN "object" ELSE v.type

\* JSON.stringify(v) as a text; "" stands for an undefined result
JSONstringify(v) ==
    CASE v.type = "object" -> v.json
      [] v.type = "string" -> "\"" \o v.text \o "\""
      [] v.type = "null" -> "null"
      [] OTHER -> ""

\* String(v)
StringOf(v) ==
    CASE v.type = "string" -> v.text
      [] v.type = "object" -> "[object Object]"
      [] OTHER -> v.type

\* a || b on texts
OrElse(a, b) == IF a # "" THEN a ELSE b

\* uploadDigit once the storage call has settled: the value the promise
\* resolves to, or a rejection when the catch block itself throws
uploadDigit(digit, o) ==
    IF ~o.thrown
    THEN IF Truthy(o.error)
         THEN LET errorMessage ==
                    OrElse(OrElse(MessageOf(o.error),
                                  IF TypeOf(o.error) = "object"
                                  THEN JSONstringify(o.error)
                                  ELSE StringOf(o.error)),
                           "Unknown Supabase error")
              IN [rejected |-> FALSE,
                  value |-> [success |-> FALSE, error |-> errorMessage]]
         ELSE [rejected |-> FALSE, value |-> [success |-> TRUE]]
    ELSE IF IsNullish(o.error)
         THEN [rejected |-> TRUE]
         ELSE LET errorMessage ==
                    OrElse(OrElse(MessageOf(o.error),
                                  IF TypeOf(o.error) = "string"
                                  THEN StringOf(o.error)
                                  ELSE JSONstringify(o.error)),
                           "Unknown error")
              IN [rejected |-> FALSE,
                  value |-> [success |-> FALSE, error |-> errorMessage]]

-----------------------------------------------------------------------------
(* App: configuration check *)

ConfigValues ==
    [url : {PLACEHOLDER_URL, "https://digits.supabase.co"},
     key : {PLACEHOLDER_KEY, "anon-public-key"},
     bucket : {PLACEHOLDER_BUCKET, "digits"}]

\* checkConfig with || in place of &&
checkConfigEither(c) == c.url # PLACEHOLDER_URL \/ c.key # PLACEHOLDER_KEY

checkConfig(c) == c.url # PLACEHOLDER_URL /\ c.key # PLACEHOLDER_KEY

-----------------------------------------------------------------------------
(* App: handleSubmit and the promises it creates *)

IdleTask ==
    [pc |-> "idle", isEmpty |-> TRUE, calls |-> 0, client |-> Null, value |-> Null]

\* return { digit, success: true, skipped: true }
Skipped(d) == [digit |-> d, success |-> TRUE, skipped |-> TRUE]

\* return { digit, ...result }
Spread(d, result) == result @@ [digit |-> d]

\* results collected in the order the promises settled
PromiseAllAsCompleted(t, order) == [i \in 1..Len(order) |-> t[order[i]].value]

\* the value Promise.all(uploadPromises) fulfils with: the i-th entry is the
\* value of the i-th promise of DIGITS.map, whatever the order of settling
PromiseAll(t, order) == [i \in 1..Len(DIGITS) |-> t[DIGITS[i]].value]

AllFulfilled(t) == \A d \in DigitSet : t[d].pc = "fulfilled"

\* the same without the finally block: a rejection leaves isUploading set
JoinNoFinally(pending, d, t2, order2, res0, err0) ==
    /\ task' = t2
    /\ completed' = order2
    /\ IF ~pending
       THEN UNCHANGED <<allPromise, isUploading, results, globalError>>
       ELSE IF d \in DigitSet /\ t2[d].pc = "rejected"
       THEN /\ allPromise' = "rejected"
            /\ results' = res0
            /\ globalError' = BATCH_ERROR
            /\ isUploading' = TRUE
       ELSE IF AllFulfilled(t2)
       THEN /\ allPromise' = "fulfilled"
            /\ results' = PromiseAll(t2, order2)
            /\ globalError' = err0
            /\ isUploading' = FALSE
       ELSE /\ allPromise' = "pending"
            /\ results' = res0
            /\ globalError' = err0
            /\ isUploading' = TRUE

\* what follows the settling of a task's promise, in the same turn of the
\* event loop: Promise.all settles when the last promise is fulfilled or the
\* first one is rejected, and handleSubmit resumes in try / catch / finally
Join(pending, d, t2, order2, res0, err0) ==
    /\ task' = t2
    /\ completed' = order2
    /\ IF ~pending
       THEN UNCHANGED <<allPromise, isUploading, results, globalError>>
       ELSE IF d \in DigitSet /\ t2[d].pc = "rejected"
       THEN /\ allPromise' = "rejected"
            /\ results' = res0
            /\ globalError' = BATCH_ERROR
            /\ isUploading' = FALSE
       ELSE IF AllFulfilled(t2)
       THEN /\ allPromise' = "fulfilled"
            /\ results' = PromiseAll(t2, order2)
            /\ globalError' = err0
            /\ isUploading' = FALSE
       ELSE /\ allPromise' = "pending"
            /\ results' = res0
            /\ globalError' = err0
            /\ isUploading' = TRUE

\* a batch start without setResults(null) and setGlobalError(null)
startBatchKeepStatus ==
    LET started ==
          [d \in DigitSet |->
             IF getData(slot[d]).isEmpty
             THEN [pc |-> "fulfilled", isEmpty |-> TRUE, calls |-> 0,
                   client |-> Null, value |-> Skipped(d)]
             ELSE [pc |-> "toBlob", isEmpty |-> FALSE, calls |-> 0,
                   client |-> Null, value |-> Null]]
        order == SelectSeq(DIGITS, LAMBDA d : started[d].pc = "fulfilled")
    IN Join(TRUE, -1, started, order, results, globalError)

\* the Submit All button (disabled while isUploading).  The ten callbacks of
\* DIGITS.map run up to their first await inside the click, so every slot is
\* scanned here; the promises of the blank slots are fulfilled, in digit
\* order, before any other event is handled.  Tasks left over from a batch
\* that was rejected are no longer observed.
startBatch ==
    LET started ==
          [d \in DigitSet |->
             IF getData(slot[d]).isEmpty
             THEN [pc |-> "fulfilled", isEmpty |-> TRUE, calls |-> 0,
                   client |-> Null, value |-> Skipped(d)]
             ELSE [pc |-> "toBlob", isEmpty |-> FALSE, calls |-> 0,
                   client |-> Null, value |-> Null]]
        order == SelectSeq(DIGITS, LAMBDA d : started[d].pc = "fulfilled")
    IN Join(TRUE, -1, started, order, NoResults, NullText)

\* handleSubmit without the return after the configuration error
handleSubmitNoReturn ==
    /\ ~isUploading
    /\ startBatch
    /\ UNCHANGED <<config, isConfigValid, slot, hist, raster, scanOut, storage,
                   reply>>

handleSubmit ==
    /\ ~isUploading
    /\ IF ~isConfigValid
       THEN /\ globalError' = CONFIG_ERROR
            /\ UNCHANGED <<isUploading, results, task, allPromise, completed>>
       ELSE startBatch
    /\ UNCHANGED <<config, isConfigValid, slot, hist, raster, scanOut, storage,
                   reply>>

\* the callback of smallCanvas.toBlob: a Blob, or null when the encoder
\* produced nothing; then the task goes on to call uploadDigit
toBlobCallback(d) ==
    /\ task[d].pc = "toBlob"
    /\ \E blob \in BOOLEAN :
         LET t2 == IF blob
                   THEN [task EXCEPT ![d].pc = "upload", ![d].calls = @ + 1]
                   ELSE [task EXCEPT ![d].pc = "fulfilled",
                                     ![d].value = Skipped(d)]
             order2 == IF blob THEN completed ELSE Append(completed, d)
         IN Join(allPromise = "pending", d, t2, order2, results, globalError)
    /\ UNCHANGED <<config, isConfigValid, slot, hist, raster, scanOut, storage,
                   reply>>

\* the storage call of uploadDigit settles
storageSettled(d) ==
    /\ task[d].pc = "upload"
    /\ \E o \in BatchOutcomes :
         LET r == uploadDigit(d, o)
             t2 == IF r.rejected
                   THEN [task EXCEPT ![d].pc = "rejected"]
                   ELSE [task EXCEPT ![d].pc = "fulfilled",
                                     ![d].client = r.value,
                                     ![d].value = Spread(d, r.value)]
         IN Join(allPromise = "pending", d, t2, Append(completed, d),
                 results, globalError)
    /\ UNCHANGED <<config, isConfigValid, slot, hist, raster, scanOut, storage,
                   reply>>

\* Clear All that resets the first canvas only
handleClearAllFirstOnly ==
    /\ ~isUploading
    /\ slot' = [slot EXCEPT ![DIGITS[1]] = initCanvas(slot[DIGITS[1]])]
    /\ hist' = [hist EXCEPT ![DIGITS[1]] = [clears |-> Bump(hist[DIGITS[1]].clears),
                                            inked |-> FALSE]]
    /\ results' = NoResults
    /\ globalError' = NullText
    /\ UNCHANGED <<config, isConfigValid, isUploading, task, allPromise,
                   completed, raster, scanOut, storage, reply>>

\* the Clear All button (disabled while isUploading)
handleClearAll ==
    /\ ~isUploading
    /\ slot' = [d \in DigitSet |-> initCanvas(slot[d])]
    /\ hist' = [d \in ActiveDigits |-> [clears |-> Bump(hist[d].clears),
                                        inked |-> FALSE]]
    /\ results' = NoResults
    /\ globalError' = NullText
    /\ UNCHANGED <<config, isConfigValid, isUploading, task, allPromise,
                   completed, raster, scanOut, storage, reply>>

\* the Status Reporter's error entry: `Digit ${r.digit} (${r.message})`
DisplayedMessage(r) == IF "message" \in DOMAIN r THEN r.message ELSE UndefinedText

-----------------------------------------------------------------------------
(* The application *)

Init ==
    /\ config \in {c \in ConfigValues : c.bucket = "digits"}
    /\ isConfigValid = checkConfig(config)
    /\ slot = [d \in DigitSet |-> MountedSlot]
    /\ isUploading = FALSE
    /\ results = NoResults
    /\ globalError = NullText
    /\ task = [d \in DigitSet |-> IdleTask]
    /\ allPromise = "none"
    /\ completed = <<>>
    /\ hist = [d \in ActiveDigits |-> FreshHist]
    /\ raster = <<>>
    /\ scanOut = Null
    /\ storage = Null
    /\ reply = Null

Next ==
    \/ \E d \in ActiveDigits : clear(d)
    \/ \E d \in ActiveDigits : startDrawing(d)
    \/ \E d \in ActiveDigits : draw(d)
    \/ \E d \in ActiveDigits : stopDrawing(d)
    \/ handleSubmit
    \/ \E d \in DigitSet : toBlobCallback(d)
    \/ \E d \in DigitSet : storageSettled(d)
    \/ handleClearAll

Spec == Init /\ [][Next]_vars

\* every per-digit operation that was started completes: the browser calls
\* the toBlob callback, and the storage call of uploadDigit settles
Completion ==
    \A d \in ActiveDigits :
        /\ WF_vars(toBlobCallback(d))
        /\ WF_vars(storageSettled(d))

SpecLive == Init /\ [][Next]_vars /\ Completion

-----------------------------------------------------------------------------
(* The pure functions on their own: the pixel scan of getData over every    *)
(* raster of ScanPixels pixels, and checkConfig over every configuration    *)

\* channel values around the threshold; the small canvas is opaque
ScanLevels == {THRESHOLD - 1, THRESHOLD, WHITE}

Pixels == {<<r, g, b, WHITE>> : r \in ScanLevels, g \in ScanLevels, b \in ScanLevels}

RECURSIVE RastersOf(_)
RastersOf(n) ==
    IF n = 0 THEN {<<>>} ELSE {p \o t : p \in Pixels, t \in RastersOf(n - 1)}

scan ==
    /\ scanOut = Null
    /\ scanOut' = Classify(raster)
    /\ UNCHANGED <<config, isConfigValid, slot, isUploading, results,
                   globalError, task, allPromise, completed, hist, raster,
                   storage, reply>>

\* one call of uploadDigit whose storage call produced `storage`
upload ==
    /\ storage # Null
    /\ reply = Null
    /\ reply' = uploadDigit(DIGITS[1], storage)
    /\ UNCHANGED <<config, isConfigValid, slot, isUploading, results,
                   globalError, task, allPromise, completed, hist, raster,
                   scanOut, storage>>

\* the inputs: a configuration and a raster for checkConfig and the scan, or
\* a storage outcome for uploadDigit
InitFun ==
    /\ \/ /\ config \in ConfigValues
          /\ raster \in RastersOf(ScanPixels)
          /\ storage = Null
       \/ /\ config \in {c \in ConfigValues : checkConfig(c) /\ c.bucket = "digits"}
          /\ raster = <<>>
          /\ storage \in StorageOutcomes
    /\ isConfigValid = checkConfig(config)
    /\ scanOut = Null
    /\ reply = Null
    /\ slot = [d \in DigitSet |-> MountedSlot]
    /\ isUploading = FALSE
    /\ results = NoResults
    /\ globalError = NullText
    /\ task = [d \in DigitSet |-> IdleTask]
    /\ allPromise = "none"
    /\ completed = <<>>
    /\ hist = [d \in ActiveDigits |-> FreshHist]

NextFun == scan \/ upload

SpecFun == InitFun /\ [][NextFun]_vars

-----------------------------------------------------------------------------
(* Claims *)

\* C1: whenever handleSubmit has produced a result list, the list has exactly
\* 10 entries and its i-th entry is the outcome of digit i - 1, whatever the
\* order in which the uploads completed.
C1_OrderedOutcomes ==
    results # NoResults =>
        /\ Len(results) = 10
        /\ \A i \in 1..Len(results) :
             /\ results[i].digit = i - 1
             /\ results[i] = task[i - 1].value

\* C1 witness: digits 0 and 9 were both uploaded, the upload of digit 9
\* completed before that of digit 0, and the result list is present.
C1_Witness ==
    /\ results # NoResults
    /\ task[0].calls = 1
    /\ task[9].calls = 1
    /\ \E i, j \in 1..Len(completed) :
         i < j /\ completed[i] = 9 /\ completed[j] = 0

\* C2: with an invalid configuration there is never a result list, never an
\* in-flight batch, no task is ever started, uploadDigit is never called, and
\* the only global error ever shown is the configuration error.
C2_InvalidConfigNoBatch ==
    ~isConfigValid =>
        /\ results = NoResults
        /\ ~isUploading
        /\ allPromise = "none"
        /\ \A d \in DigitSet : task[d].pc = "idle" /\ task[d].calls = 0
        /\ globalError \in {NullText, CONFIG_ERROR}

\* C2 witness: the configuration is invalid, a slot holds a drawing, and
\* Submit All has set the configuration error.
C2_Witness ==
    /\ ~isConfigValid
    /\ globalError = CONFIG_ERROR
    /\ \E d \in ActiveDigits : ~getData(slot[d]).isEmpty

\* C3 (as claimed): a settled digit that was classified empty has the skipped
\* outcome and no uploadDigit call; one classified non-empty has exactly one
\* uploadDigit call and its outcome's success is the client's.
C3_SkipIffEmpty ==
    \A d \in DigitSet :
        task[d].pc = "fulfilled" =>
            IF task[d].isEmpty
            THEN task[d].value = Skipped(d) /\ task[d].calls = 0
            ELSE /\ task[d].calls = 1
                 /\ task[d].client # Null
                 /\ task[d].value.success = task[d].client.success

\* C4 (as claimed): when an in-flight batch ends, it yields all 10 outcomes,
\* and every digit whose upload succeeded has success: true in them, whatever
\* happened to the other digits.
C4_FailIndependent ==
    [][(isUploading /\ ~isUploading') =>
          /\ results' # NoResults
          /\ Len(results') = 10
          /\ \A d \in DigitSet :
               (task'[d].client # Null /\ task'[d].client.success)
                   => results'[d + 1].success]_vars

\* C5 (as claimed): in the result list, the outcome of a digit whose upload
\* failed with error text m has message = m, and the Status Reporter shows m.
C5_MessageReported ==
    results # NoResults =>
        \A i \in 1..Len(results) :
            LET d == DIGITS[i]
            IN (task[d].client # Null /\ ~task[d].client.success) =>
                  /\ ~results[i].success
                  /\ "message" \in DOMAIN results[i]
                  /\ results[i].message = task[d].client.error
                  /\ DisplayedMessage(results[i]) = task[d].client.error

\* C6 (as claimed): the configuration check is false whenever the URL, the
\* key or the bucket holds its placeholder, and true when none does.
C6_AnyPlaceholder ==
    LET anyPlaceholder == \/ config.url = PLACEHOLDER_URL
                          \/ config.key = PLACEHOLDER_KEY
                          \/ config.bucket = PLACEHOLDER_BUCKET
    IN isConfigValid = ~anyPlaceholder

\* C6 (amended): the configuration check is false whenever the URL or the key
\* holds its placeholder, and true when neither does, whatever the bucket.
C6_UrlOrKeyPlaceholder ==
    /\ (config.url = PLACEHOLDER_URL \/ config.key = PLACEHOLDER_KEY)
          => ~isConfigValid
    /\ (config.url # PLACEHOLDER_URL /\ config.key # PLACEHOLDER_KEY)
          => isConfigValid

\* C6 witness: URL and key are set, the bucket is its placeholder, and the
\* check has answered true.
C6_Witness ==
    /\ config.url # PLACEHOLDER_URL
    /\ config.key # PLACEHOLDER_KEY
    /\ config.bucket = PLACEHOLDER_BUCKET
    /\ isConfigValid

\* no entry of an R, G or B channel is below the threshold
NoDarkPixel(data) ==
    \A i \in 1..Len(data) : i % 4 # 0 => data[i] >= THRESHOLD

\* C7: the scan with its early exit answers empty (and a null payload, no
\* encoding) exactly when no pixel of the raster has a channel below 240.
C7_ScanIsFullScan ==
    scanOut # Null =>
        /\ scanOut.isEmpty = NoDarkPixel(raster)
        /\ scanOut.encoding = ~scanOut.isEmpty

\* C7 witness: the scan has left early on a dark first pixel of a raster
\* whose last pixel is background.
C7_Witness ==
    /\ scanOut # Null
    /\ ~scanOut.isEmpty
    /\ raster[1] < THRESHOLD
    /\ \A k \in 0..2 : raster[Len(raster) - 1 - k] = WHITE

\* C8: a slot on which initCanvas ran and that received no stroke input since
\* is classified empty by getData, after any strokes, clears and submits.
C8_ClearedIsEmpty ==
    \A d \in DigitSet :
        (d \in ActiveDigits => hist[d].clears >= 1)
            => getData(slot[d]).isEmpty

\* C8 witness: a slot that was drawn on below the threshold and uploaded was
\* cleared in the middle of a stroke, with the results still displayed.
C8_Witness ==
    \E d \in ActiveDigits :
        /\ hist[d].clears >= 1
        /\ slot[d].isDrawing
        /\ slot[d].path < THRESHOLD
        /\ task[d].calls = 1
        /\ results # NoResults

C10_ClearIdempotent ==
    [][\A d \in ActiveDigits :
          (hist[d].clears = 1 /\ hist'[d].clears = 2) => slot'[d] = slot[d]]_vars

\* C10 witness: a slot cleared twice in a row in the middle of a stroke that
\* had drawn below the threshold.
C10_Witness ==
    \E d \in ActiveDigits :
        /\ hist[d].clears = 2
        /\ slot[d].isDrawing
        /\ slot[d].path < THRESHOLD

\* C11: every Clear All step leaves all ten slots blank (classified empty
\* by getData) with hasContent = false, and leaves neither a result list nor
\* a global error; it never clears some slots and not others.
C11_ClearAllTotal ==
    [][handleClearAll =>
          /\ \A d \in DigitSet :
               /\ slot'[d].surface = BlankSurface
               /\ getData(slot'[d]).isEmpty
               /\ ~slot'[d].hasContent
          /\ results' = NoResults
          /\ globalError' = NullText]_vars

\* C11 witness: a batch uploaded digits 0 and 9 and showed its results, and
\* Clear All has since removed the results and blanked every slot.
C11_Witness ==
    /\ allPromise = "fulfilled"
    /\ task[0].calls = 1
    /\ task[9].calls = 1
    /\ results = NoResults
    /\ globalError = NullText
    /\ \A d \in DigitSet : getData(slot[d]).isEmpty /\ ~slot[d].hasContent
    /\ \A d \in ActiveDigits : hist[d].clears = 1

\* C12: a startDrawing event on a slot that is already drawing is a no-op: it
\* leaves the slot as it is, so the path in progress is not discarded and no
\* new path is started.
C12_BeginStrokeGuarded ==
    [][\A d \in ActiveDigits :
          (slot[d].isDrawing /\ startDrawing(d)) => slot'[d] = slot[d]]_vars

\* C13: when a promise of the batch rejects while Promise.all is pending, the
\* rejection is caught in handleSubmit: the step sets the one batch-level
\* global error, leaves no result list and resets isUploading to false.
C13_BatchExceptionCaught ==
    [][(allPromise = "pending" /\ allPromise' = "rejected") =>
          /\ globalError' = BATCH_ERROR
          /\ results' = NoResults
          /\ ~isUploading']_vars

\* C13 witness: the task of digit 0 rejected while the task of digit 9 was
\* still uploading; the batch ended with the global error and no result list.
C13_Witness ==
    /\ allPromise = "rejected"
    /\ task[0].pc = "rejected"
    /\ task[9].pc = "upload"
    /\ globalError = BATCH_ERROR
    /\ results = NoResults
    /\ ~isUploading

IsSkipped(r) == "skipped" \in DOMAIN r /\ r.skipped

\* C14 (as claimed): in a result list, an outcome is the skipped one only for
\* a slot that was classified empty, and a slot classified non-empty whose
\* encoding gave no blob or whose upload failed has success: false.
C14_NoErrorSwallowed ==
    results # NoResults =>
        \A d \in DigitSet :
            /\ IsSkipped(results[d + 1]) => task[d].isEmpty
            /\ (~task[d].isEmpty /\ task[d].calls = 0) => ~results[d + 1].success
            /\ (task[d].client # Null /\ ~task[d].client.success)
                   => ~results[d + 1].success

\* C15: a pointer event or an Erase on slot d leaves every other slot as it
\* was (surface, hasContent and stroke state included), and every step of a
\* batch (the Submit All click, a toBlob callback, a settled storage call)
\* leaves the surface and hasContent of all ten slots unchanged.  Stated by
\* contraposition: a step that changes another slot is no event of slot d,
\* and a step that changes a surface or a hasContent is no step of a batch.
C15_SlotFrame ==
    [][/\ \A d \in ActiveDigits :
            (\E e \in DigitSet \ {d} : slot'[e] # slot[e]) =>
                ~(startDrawing(d) \/ draw(d) \/ stopDrawing(d) \/ clear(d))
       /\ (\E e \in DigitSet : \/ slot'[e].surface # slot[e].surface
                               \/ slot'[e].hasContent # slot[e].hasContent) =>
             ~(handleSubmit \/ \E d \in DigitSet :
                                 toBlobCallback(d) \/ storageSettled(d))]_vars

\* C15 witness: slot 0 still carries its ink and its stroke in progress after
\* a batch uploaded it, and after slot 9 was erased twice.
C15_Witness ==
    /\ allPromise = "fulfilled"
    /\ task[0].calls = 1
    /\ slot[0].surface < THRESHOLD
    /\ slot[0].hasContent
    /\ slot[0].isDrawing
    /\ hist[0].inked
    /\ hist[9].clears = 2
    /\ slot[9].surface = BlankSurface

\* C16: the stroke state of a slot follows {Idle, Drawing}: on an idle slot
\* draw and stopDrawing change nothing of the slot; draw on a drawing slot
\* leaves it drawing; stopDrawing on a drawing slot leaves it idle; and no
\* step darkens a pixel of a slot that is idle.
C16_StrokeMachine ==
    [][\A d \in ActiveDigits :
          /\ (~slot[d].isDrawing /\ slot'[d] # slot[d])
                 => ~(draw(d) \/ stopDrawing(d))
          /\ (slot[d].isDrawing /\ ~slot'[d].isDrawing) => ~draw(d)
          /\ (slot[d].isDrawing /\ slot'[d].isDrawing) => ~stopDrawing(d)
          /\ ~slot[d].isDrawing => slot'[d].surface >= slot[d].surface]_vars

\* C16 witness: slot 0 went Idle -> Drawing -> Idle: its stroke inked the
\* surface and has ended, and nothing cleared the slot since.
C16_Witness ==
    /\ ~slot[0].isDrawing
    /\ slot[0].hasContent
    /\ hist[0].inked
    /\ hist[0].clears = 0
    /\ slot[0].surface < THRESHOLD
    /\ slot[0].path = slot[0].surface

\* C17 (as claimed): an Erase of slot d or a Clear All leaves slot d idle with
\* hasContent = false, also when a stroke was active, and a draw event on a
\* slot that was cleared and has had no startDrawing since paints nothing.
C17_ClearResetsStroke ==
    [][\A d \in ActiveDigits :
          /\ (clear(d) \/ handleClearAll)
                 => (~slot'[d].isDrawing /\ ~slot'[d].hasContent)
          /\ (hist[d].clears >= 1 /\ draw(d))
                 => slot'[d].surface = slot[d].surface]_vars

\* every promise of DIGITS.map is settled
Settled(t) == \A d \in DigitSet : t[d].pc \in {"fulfilled", "rejected"}

\* a batch in flight eventually ends (holds under SpecLive)
BatchEventuallyEnds == isUploading ~> ~isUploading

\* C18 (as claimed): a batch in flight eventually ends; isUploading stays
\* true until all ten per-digit operations have settled, and on the step
\* that resets it either a list of 10 outcomes or a global error is present.
C18_BatchFinishes ==
    /\ BatchEventuallyEnds
    /\ [][(isUploading /\ ~isUploading') =>
             /\ Settled(task')
             /\ \/ results' # NoResults /\ Len(results') = 10
                \/ globalError' # NullText]_vars

\* C19 (as claimed): whatever error value the storage call returns or throws
\* (an object with or without a message, a string, null or undefined),
\* uploadDigit resolves, with success: false and a non-empty error text.
C19_AlwaysResolvesWithMessage ==
    (reply # Null /\ (storage.thrown \/ storage.error # JsNull)) =>
        /\ ~reply.rejected
        /\ ~reply.value.success
        /\ reply.value.error # ""

\* C20: in every reachable state the result list and the global error are not
\* both present.
C20_ResultsXorGlobalError ==
    ~(results # NoResults /\ globalError # NullText)

\* C20 witness: a batch ended with a result list that holds a failed upload of
\* digit 0, and no global error is shown with it.
C20_Witness ==
    /\ results # NoResults
    /\ ~results[1].success
    /\ allPromise = "fulfilled"
    /\ globalError = NullText

====
